---- MODULE Spec2Model ----
(***************************************************************************)
(* Model of the Struct Editor plugin (src/src/lib.rs): the plugin's        *)
(* registry of editor instances, the id counter, the two mutexes, the      *)
(* reference-counted handles create_editor hands to the host, and the      *)
(* wrapper operations the host invokes through them.                       *)
(***************************************************************************)
EXTENDS Naturals, Integers, Sequences, FiniteSets, TLC

\* ------------------------------------------------------------------ bounds
MaxEditors == 2      \* editor instances built over a run
MaxClones == 2       \* clones of one view handle the host holds at a time

\* ------------------------------------------------------------ input domains
Threads == {"t1", "t2"}                    \* callers of create_editor
UiThread == "t1"
SupportedEditor == "struct-editor"         \* lib.rs:110
EditorIds == {"struct-editor", "text-editor"}
MarkerFile == "struct.json"                \* lib.rs:112
Folders == {"A.struct"}                    \* paths for which is_dir() holds
FilePaths == {"A.struct", "A.struct/struct.json"}
DefaultContent == "NewStruct"              \* lib.rs:81-84
Contents == {"NewStruct", "Edited"}
Absent == "absent"
Free == "free"
Host == "host"
NoOut == [kind |-> "none"]
NoOp == [op |-> "none"]
NoLocal == [panel_arc |-> 0, wrapper |-> <<0, "none">>, id |-> -1]
DeadEditor == [strong |-> 0, doc |-> Absent, saved |-> Absent, path |-> Absent]

VARIABLES
  editors,         \* HashMap<usize, EditorStorage>: id -> [panel, wrapper]
  next_editor_id,  \* the counter behind its Mutex
  id_lock,         \* holder of the next_editor_id mutex
  map_lock,        \* holder of the editors mutex
  panel_arcs,      \* strong count of each Arc<dyn PanelView>, by address
  struct_editors,  \* the Entity<StructEditor> heap: handle count and document
  wrappers,        \* live StructEditorWrapper boxes: address -> [panel, file_path]
  pc,              \* position of each create_editor caller
  local,           \* create_editor's locals: panel_arc, wrapper, id
  host_views,      \* clones of each view handle the host holds
  host_wrappers,   \* Box<dyn EditorInstance> values the host owns
  inflight,        \* the save/reload the UI thread is inside of
  disk,            \* backing store: actual path -> content
  phase,           \* lifecycle callback the host called last
  issued,          \* ids read at lib.rs:137, in order (the log of line 148)
  out              \* the value returned by the call that completed in the last step

vars == <<editors, next_editor_id, id_lock, map_lock, panel_arcs,
          struct_editors, wrappers, pc, local, host_views,
          host_wrappers, inflight, disk, phase, issued, out>>

plugin == <<editors, next_editor_id, id_lock, map_lock>>
heap == <<panel_arcs, struct_editors, wrappers>>
caller == <<pc, local>>
hostside == <<host_views, host_wrappers, inflight>>

\* ------------------------------------------------------------ pure helpers
Range(s) == {s[i] : i \in DOMAIN s}

is_dir(p) == p \in Folders

join(p, name) == p \o "/" \o name

\* lib.rs:111-115
actual_path(file_path) ==
  IF is_dir(file_path) THEN join(file_path, MarkerFile) ELSE file_path

\* load of the backing document; an absent marker falls back to the default
load(store, path) ==
  IF store[path] = Absent THEN DefaultContent ELSE store[path]

\* StructEditor::new_with_file: a fresh entity holding the loaded document
new_with_file(path) ==
  [strong |-> 1, doc |-> load(disk, path), saved |-> load(disk, path),
   path |-> path]

\* Releasing n handles of entity e: the entity is destroyed at zero.
ReleaseEntity(eds, e, n) ==
  [eds EXCEPT ![e] = IF @.strong - n <= 0 THEN DeadEditor
                     ELSE [@ EXCEPT !.strong = @ - n]]

Alive(e) == e \in DOMAIN struct_editors /\ struct_editors[e].strong > 0

\* Number of entries among ids S whose Arc is the one at address e
ArcRefs(S, e) == Cardinality({i \in S : editors[i].panel = e})

\* Number of entries among ids S whose stored wrapper points at entity e
WrapperRefs(S, e) ==
  Cardinality({i \in S : editors[i].wrapper \in DOMAIN wrappers
                         /\ wrappers[editors[i].wrapper].panel = e})

\* Dropping the EditorStorage values stored under the ids S: each releases
\* one strong count of its Arc and destroys its Box<StructEditorWrapper>.
ArcsAfterDrop(arcs, S) ==
  [e \in DOMAIN arcs |->
     IF arcs[e] - ArcRefs(S, e) < 0 THEN 0 ELSE arcs[e] - ArcRefs(S, e)]

ArcDied(arcs, S, e) == arcs[e] > 0 /\ ArcsAfterDrop(arcs, S)[e] = 0

EditorsAfterDrop(eds, arcs, S) ==
  [e \in DOMAIN eds |->
     LET n == WrapperRefs(S, e) + (IF ArcDied(arcs, S, e) THEN 1 ELSE 0)
     IN  IF eds[e].strong - n <= 0 THEN DeadEditor
         ELSE [eds[e] EXCEPT !.strong = @ - n]]

WrappersAfterDrop(ws, S) ==
  [w \in DOMAIN ws \ {editors[i].wrapper : i \in S} |-> ws[w]]

\* ---------------------------------------------------------------- Default
Init ==
  /\ editors = <<>>
  /\ next_editor_id = 0
  /\ id_lock = Free
  /\ map_lock = Free
  /\ panel_arcs = <<>>
  /\ struct_editors = <<>>
  /\ wrappers = <<>>
  /\ pc = [t \in Threads |-> "idle"]
  /\ local = [t \in Threads |-> NoLocal]
  /\ host_views = <<>>
  /\ host_wrappers = {}
  /\ inflight = NoOp
  /\ disk = [p \in {actual_path(f) : f \in FilePaths} |-> Absent]
  /\ phase = "Unloaded"
  /\ issued = <<>>
  /\ out = NoOut

\* ------------------------------------------------------------------ editors
\* Mutant of EditorMetadata: a second editor is declared that create_editor
\* does not serve.
EditorMetadataWithText ==
  {[id |-> "struct-editor", display_name |-> "Struct Editor",
    supported_file_types |-> {"struct"}],
   [id |-> "text-editor", display_name |-> "Text Editor",
    supported_file_types |-> {"struct"}]}

\* lib.rs:90-96: what editors() returns
EditorMetadata ==
  {[id |-> "struct-editor", display_name |-> "Struct Editor",
    supported_file_types |-> {"struct"}]}

\* the editor ids editors() declares
DeclaredEditorIds == {m.id : m \in EditorMetadata}

\* ------------------------------------------------------------ create_editor
\* Mutant of CreateEditorNotFound: the id is taken before the editor id is
\* looked at, so a rejected call consumes one.
CreateEditorNotFoundAdvancing(t, editor_id) ==
  /\ pc[t] = "idle"
  /\ t = UiThread => inflight = NoOp
  /\ editor_id # SupportedEditor
  /\ id_lock = Free
  /\ next_editor_id < MaxEditors
  /\ next_editor_id' = next_editor_id + 1
  /\ out' = [kind |-> "create", res |-> "EditorNotFound"]
  /\ UNCHANGED <<editors, id_lock, map_lock, heap, caller, hostside, disk,
                 phase, issued>>

\* lib.rs:152-154: the else branch
CreateEditorNotFound(t, editor_id) ==
  /\ pc[t] = "idle"
  /\ t = UiThread => inflight = NoOp
  /\ editor_id # SupportedEditor
  /\ out' = [kind |-> "create", res |-> "EditorNotFound"]
  /\ UNCHANGED <<plugin, heap, caller, hostside, disk, phase, issued>>

\* Mutant of CreateEditorBuild: the wrapper is bound to the resolved path.
CreateEditorBuildResolved(t, editor_id, file_path) ==
  /\ pc[t] = "idle"
  /\ t = UiThread => inflight = NoOp
  /\ editor_id = SupportedEditor
  /\ Len(struct_editors) < MaxEditors
  /\ LET e == Len(struct_editors) + 1
         w == <<e, "boxed">>
     IN  /\ struct_editors' =
              Append(struct_editors,
                     [new_with_file(actual_path(file_path)) EXCEPT !.strong = 2])
         /\ panel_arcs' = Append(panel_arcs, 1)
         /\ host_views' = Append(host_views, 0)
         /\ wrappers' = (w :> [panel |-> e,
                               file_path |-> actual_path(file_path)])
                          @@ wrappers
         /\ local' = [local EXCEPT ![t] =
                        [panel_arc |-> e, wrapper |-> w, id |-> -1]]
  /\ pc' = [pc EXCEPT ![t] = "lock_id"]
  /\ out' = NoOut
  /\ UNCHANGED <<plugin, host_wrappers, inflight, disk, phase, issued>>

\* Mutant of CreateEditorBuild: the map is locked first and the document is
\* resolved and loaded under the lock.
CreateEditorBuildLocked(t, editor_id, file_path) ==
  /\ pc[t] = "idle"
  /\ t = UiThread => inflight = NoOp
  /\ editor_id = SupportedEditor
  /\ Len(struct_editors) < MaxEditors
  /\ map_lock = Free
  /\ map_lock' = t
  /\ LET e == Len(struct_editors) + 1
         w == <<e, "boxed">>
     IN  /\ struct_editors' =
              Append(struct_editors,
                     [new_with_file(actual_path(file_path)) EXCEPT !.strong = 2])
         /\ panel_arcs' = Append(panel_arcs, 1)
         /\ host_views' = Append(host_views, 0)
         /\ wrappers' = (w :> [panel |-> e, file_path |-> file_path]) @@ wrappers
         /\ local' = [local EXCEPT ![t] =
                        [panel_arc |-> e, wrapper |-> w, id |-> -1]]
  /\ pc' = [pc EXCEPT ![t] = "lock_id"]
  /\ out' = NoOut
  /\ UNCHANGED <<editors, next_editor_id, id_lock, host_wrappers, inflight,
                 disk, phase, issued>>

\* lib.rs:110-132: resolve the path, build the entity, the Arc and the wrapper
CreateEditorBuild(t, editor_id, file_path) ==
  /\ pc[t] = "idle"
  /\ t = UiThread => inflight = NoOp
  /\ editor_id = SupportedEditor
  /\ Len(struct_editors) < MaxEditors
  /\ LET e == Len(struct_editors) + 1
         w == <<e, "boxed">>
     IN  \* panel (1 handle), panel.clone() inside the Arc (2), then panel
         \* is moved into the wrapper: two handles remain
         /\ struct_editors' =
              Append(struct_editors,
                     [new_with_file(actual_path(file_path)) EXCEPT !.strong = 2])
         /\ panel_arcs' = Append(panel_arcs, 1)
         /\ host_views' = Append(host_views, 0)
         /\ wrappers' = (w :> [panel |-> e, file_path |-> file_path]) @@ wrappers
         /\ local' = [local EXCEPT ![t] =
                        [panel_arc |-> e, wrapper |-> w, id |-> -1]]
  /\ pc' = [pc EXCEPT ![t] = "lock_id"]
  /\ out' = NoOut
  /\ UNCHANGED <<plugin, host_wrappers, inflight, disk, phase, issued>>

\* Mutant of LockNextId: the counter is entered without mutual exclusion.
LockNextIdNoExclusion(t) ==
  /\ pc[t] = "lock_id"
  /\ id_lock' = t
  /\ pc' = [pc EXCEPT ![t] = "read_id"]
  /\ out' = NoOut
  /\ UNCHANGED <<editors, next_editor_id, map_lock, heap, local, hostside,
                 disk, phase, issued>>

\* lib.rs:136: self.next_editor_id.lock()
LockNextId(t) ==
  /\ pc[t] = "lock_id"
  /\ id_lock = Free
  /\ id_lock' = t
  /\ pc' = [pc EXCEPT ![t] = "read_id"]
  /\ out' = NoOut
  /\ UNCHANGED <<editors, next_editor_id, map_lock, heap, local, hostside,
                 disk, phase, issued>>

\* lib.rs:137: let id = *next_id
ReadNextId(t) ==
  /\ pc[t] = "read_id"
  /\ local' = [local EXCEPT ![t].id = next_editor_id]
  /\ issued' = Append(issued, next_editor_id)
  /\ pc' = [pc EXCEPT ![t] = "inc_id"]
  /\ out' = NoOut
  /\ UNCHANGED <<plugin, heap, hostside, disk, phase>>

\* Mutant of IncNextId: the guard of the counter lives to the end of
\* create_editor, so the counter stays locked across the insert.
IncNextIdKeepsLock(t) ==
  /\ pc[t] = "inc_id"
  /\ next_editor_id' = next_editor_id + 1
  /\ pc' = [pc EXCEPT ![t] = "lock_map"]
  /\ out' = NoOut
  /\ UNCHANGED <<editors, id_lock, map_lock, heap, local, hostside, disk,
                 phase, issued>>

\* Mutant of IncNextId: the guard is dropped without the increment.
IncNextIdNoAdvance(t) ==
  /\ pc[t] = "inc_id"
  /\ id_lock' = IF id_lock = t THEN Free ELSE id_lock
  /\ pc' = [pc EXCEPT ![t] = "lock_map"]
  /\ out' = NoOut
  /\ UNCHANGED <<editors, next_editor_id, map_lock, heap, local, hostside,
                 disk, phase, issued>>

\* lib.rs:138-140: *next_id += 1, then the guard is dropped
IncNextId(t) ==
  /\ pc[t] = "inc_id"
  /\ next_editor_id' = next_editor_id + 1
  /\ id_lock' = IF id_lock = t THEN Free ELSE id_lock
  /\ pc' = [pc EXCEPT ![t] = "lock_map"]
  /\ out' = NoOut
  /\ UNCHANGED <<editors, map_lock, heap, local, hostside, disk, phase,
                 issued>>

\* lib.rs:143: self.editors.lock()
LockEditors(t) ==
  /\ pc[t] = "lock_map"
  /\ map_lock = Free
  /\ map_lock' = t
  /\ pc' = [pc EXCEPT ![t] = "insert"]
  /\ out' = NoOut
  /\ UNCHANGED <<editors, next_editor_id, id_lock, heap, local, hostside,
                 disk, phase, issued>>

\* Mutant of InsertAndReturn: the entry keeps non-owning references (no
\* Arc::clone, no wrapper clone) to what is handed to the host.
InsertWeakAndReturn(t) ==
  /\ pc[t] = "insert"
  /\ LET e == local[t].panel_arc
         w == local[t].wrapper
         id == local[t].id
     IN  /\ editors' = (id :> [panel |-> e, wrapper |-> w]) @@ editors
         /\ host_views' = [host_views EXCEPT ![e] = @ + 1]
         /\ host_wrappers' = host_wrappers \cup {w}
  /\ out' = [kind |-> "create", res |-> "Ok"]
  /\ map_lock' = IF map_lock = t THEN Free ELSE map_lock
  /\ local' = [local EXCEPT ![t] = NoLocal]
  /\ pc' = [pc EXCEPT ![t] = "idle"]
  /\ UNCHANGED <<next_editor_id, id_lock, heap, inflight, disk, phase, issued>>

\* Mutant of InsertAndReturn: the entry is inserted with its view handle
\* alone, the wrapper not yet stored in it.
InsertPanelOnlyAndReturn(t) ==
  /\ pc[t] = "insert"
  /\ LET e == local[t].panel_arc
         w == local[t].wrapper
         id == local[t].id
     IN  /\ panel_arcs' = [panel_arcs EXCEPT ![e] = @ + 1]
         /\ editors' = (id :> [panel |-> e, wrapper |-> NoLocal.wrapper])
                         @@ editors
         /\ host_views' = [host_views EXCEPT ![e] = @ + 1]
         /\ host_wrappers' = host_wrappers \cup {w}
  /\ out' = [kind |-> "create", res |-> "Ok"]
  /\ map_lock' = IF map_lock = t THEN Free ELSE map_lock
  /\ local' = [local EXCEPT ![t] = NoLocal]
  /\ pc' = [pc EXCEPT ![t] = "idle"]
  /\ UNCHANGED <<next_editor_id, id_lock, struct_editors, wrappers, inflight,
                 disk, phase, issued>>

\* Mutant of InsertAndReturn: the registry keeps one entry per file path, so
\* a call for a path that already has an entry takes that entry's key.
InsertPerPathAndReturn(t) ==
  /\ pc[t] = "insert"
  /\ LET e == local[t].panel_arc
         w == local[t].wrapper
         same == {i \in DOMAIN editors :
                    wrappers[editors[i].wrapper].file_path
                      = wrappers[w].file_path}
         id == IF same = {} THEN local[t].id ELSE CHOOSE i \in same : TRUE
         stored == <<e, "stored">>
         old == {id} \cap DOMAIN editors
         arcs1 == ArcsAfterDrop(panel_arcs, old)
         eds1 == EditorsAfterDrop(struct_editors, panel_arcs, old)
         ws1 == WrappersAfterDrop(wrappers, old)
     IN  /\ panel_arcs' = [arcs1 EXCEPT ![e] = @ + 1]
         /\ struct_editors' = [eds1 EXCEPT ![e].strong = @ + 1]
         /\ wrappers' = (stored :> wrappers[w]) @@ ws1
         /\ editors' = (id :> [panel |-> e, wrapper |-> stored]) @@ editors
         /\ host_views' = [host_views EXCEPT ![e] = @ + 1]
         /\ host_wrappers' = host_wrappers \cup {w}
  /\ out' = [kind |-> "create", res |-> "Ok"]
  /\ map_lock' = IF map_lock = t THEN Free ELSE map_lock
  /\ local' = [local EXCEPT ![t] = NoLocal]
  /\ pc' = [pc EXCEPT ![t] = "idle"]
  /\ UNCHANGED <<next_editor_id, id_lock, inflight, disk, phase, issued>>

\* lib.rs:143-151: insert the EditorStorage (a clone of the Arc and a clone of
\* the wrapper), drop any value the key replaced, release the lock, and
\* return the Arc and the Box to the host.
InsertAndReturn(t) ==
  /\ pc[t] = "insert"
  /\ LET e == local[t].panel_arc
         w == local[t].wrapper
         id == local[t].id
         stored == <<e, "stored">>
         old == {id} \cap DOMAIN editors
         arcs1 == ArcsAfterDrop(panel_arcs, old)
         eds1 == EditorsAfterDrop(struct_editors, panel_arcs, old)
         ws1 == WrappersAfterDrop(wrappers, old)
     IN  /\ panel_arcs' = [arcs1 EXCEPT ![e] = @ + 1]
         /\ struct_editors' = [eds1 EXCEPT ![e].strong = @ + 1]
         /\ wrappers' = (stored :> wrappers[w]) @@ ws1
         /\ editors' = (id :> [panel |-> e, wrapper |-> stored]) @@ editors
         /\ host_views' = [host_views EXCEPT ![e] = @ + 1]
         /\ host_wrappers' = host_wrappers \cup {w}
  /\ out' = [kind |-> "create", res |-> "Ok"]
  /\ map_lock' = IF map_lock = t THEN Free ELSE map_lock
  /\ local' = [local EXCEPT ![t] = NoLocal]
  /\ pc' = [pc EXCEPT ![t] = "idle"]
  /\ UNCHANGED <<next_editor_id, id_lock, inflight, disk, phase, issued>>

\* --------------------------------------------------------------- lifecycle
\* lib.rs:157-159
on_load ==
  /\ phase' = "Loaded"
  /\ out' = NoOut
  /\ UNCHANGED <<plugin, heap, caller, hostside, disk, issued>>

\* lib.rs:163: self.editors.lock()
OnUnloadLock ==
  /\ map_lock = Free
  /\ map_lock' = Host
  /\ out' = NoOut
  /\ UNCHANGED <<editors, next_editor_id, id_lock, heap, caller, hostside,
                 disk, phase, issued>>

\* Mutant of OnUnloadClear: the count is logged but the map is not cleared.
OnUnloadKeepsEntries ==
  /\ map_lock = Host
  /\ out' = [kind |-> "unload", count |-> Cardinality(DOMAIN editors)]
  /\ map_lock' = Free
  /\ phase' = "Unloaded"
  /\ UNCHANGED <<editors, next_editor_id, id_lock, heap, caller, hostside,
                 disk, issued>>

\* Mutant of OnUnloadClear: unloading also restarts the id counter.
OnUnloadResetsIds ==
  /\ map_lock = Host
  /\ out' = [kind |-> "unload", count |-> Cardinality(DOMAIN editors)]
  /\ editors' = <<>>
  /\ next_editor_id' = 0
  /\ panel_arcs' = ArcsAfterDrop(panel_arcs, DOMAIN editors)
  /\ struct_editors' =
       EditorsAfterDrop(struct_editors, panel_arcs, DOMAIN editors)
  /\ wrappers' = WrappersAfterDrop(wrappers, DOMAIN editors)
  /\ map_lock' = Free
  /\ phase' = "Unloaded"
  /\ UNCHANGED <<id_lock, caller, hostside, disk, issued>>

\* Mutant of OnUnloadClear: the length is read after the map is cleared.
OnUnloadCountsAfterClear ==
  /\ map_lock = Host
  /\ editors' = <<>>
  /\ out' = [kind |-> "unload", count |-> Cardinality(DOMAIN editors')]
  /\ panel_arcs' = ArcsAfterDrop(panel_arcs, DOMAIN editors)
  /\ struct_editors' =
       EditorsAfterDrop(struct_editors, panel_arcs, DOMAIN editors)
  /\ wrappers' = WrappersAfterDrop(wrappers, DOMAIN editors)
  /\ map_lock' = Free
  /\ phase' = "Unloaded"
  /\ UNCHANGED <<next_editor_id, id_lock, caller, hostside, disk, issued>>

\* Mutant of OnUnloadClear: clearing the map destroys the instances of its
\* entries, whoever else holds a handle to them.
OnUnloadDestroysInstances ==
  /\ map_lock = Host
  /\ out' = [kind |-> "unload", count |-> Cardinality(DOMAIN editors)]
  /\ editors' = <<>>
  /\ panel_arcs' = ArcsAfterDrop(panel_arcs, DOMAIN editors)
  /\ struct_editors' =
       [e \in DOMAIN struct_editors |->
          IF ArcRefs(DOMAIN editors, e) > 0 THEN DeadEditor
          ELSE struct_editors[e]]
  /\ wrappers' = WrappersAfterDrop(wrappers, DOMAIN editors)
  /\ map_lock' = Free
  /\ phase' = "Unloaded"
  /\ UNCHANGED <<next_editor_id, id_lock, caller, hostside, disk, issued>>

\* lib.rs:164-167: count, clear, log, drop the guard
OnUnloadClear ==
  /\ map_lock = Host
  /\ out' = [kind |-> "unload", count |-> Cardinality(DOMAIN editors)]
  /\ editors' = <<>>
  /\ panel_arcs' = ArcsAfterDrop(panel_arcs, DOMAIN editors)
  /\ struct_editors' =
       EditorsAfterDrop(struct_editors, panel_arcs, DOMAIN editors)
  /\ wrappers' = WrappersAfterDrop(wrappers, DOMAIN editors)
  /\ map_lock' = Free
  /\ phase' = "Unloaded"
  /\ UNCHANGED <<next_editor_id, id_lock, caller, hostside, disk, issued>>

\* ------------------------------------------------- the host and its handles
\* The host uses its handles from the UI thread (save and reload take its
\* &mut Window and &mut App), one call at a time.
UiIdle == pc[UiThread] = "idle" /\ inflight = NoOp

\* Arc::clone of a view handle the host holds
HostCloneView(e) ==
  /\ e \in DOMAIN host_views
  /\ UiIdle
  /\ host_views[e] > 0
  /\ host_views[e] < MaxClones
  /\ host_views' = [host_views EXCEPT ![e] = @ + 1]
  /\ panel_arcs' = [panel_arcs EXCEPT ![e] = @ + 1]
  /\ out' = NoOut
  /\ UNCHANGED <<plugin, struct_editors, wrappers, caller, host_wrappers,
                 inflight, disk, phase, issued>>

\* drop of one host-held clone of a view handle; the last strong count of
\* the Arc releases the entity handle inside it
HostDropView(e) ==
  /\ e \in DOMAIN host_views
  /\ UiIdle
  /\ host_views[e] > 0
  /\ host_views' = [host_views EXCEPT ![e] = @ - 1]
  /\ panel_arcs' = [panel_arcs EXCEPT ![e] = @ - 1]
  /\ struct_editors' = IF panel_arcs[e] = 1
                       THEN ReleaseEntity(struct_editors, e, 1)
                       ELSE struct_editors
  /\ out' = NoOut
  /\ UNCHANGED <<plugin, wrappers, caller, host_wrappers, inflight, disk,
                 phase, issued>>

\* Mutant of HostDropWrapper: dropping the handle unregisters the instance.
HostDropWrapperUnregisters(w) ==
  /\ w \in host_wrappers
  /\ UiIdle
  /\ LET S == {i \in DOMAIN editors : editors[i].panel = wrappers[w].panel}
         ws1 == WrappersAfterDrop(wrappers, S)
         eds1 == EditorsAfterDrop(struct_editors, panel_arcs, S)
     IN  /\ editors' = [i \in DOMAIN editors \ S |-> editors[i]]
         /\ panel_arcs' = ArcsAfterDrop(panel_arcs, S)
         /\ wrappers' = [x \in DOMAIN ws1 \ {w} |-> ws1[x]]
         /\ struct_editors' = ReleaseEntity(eds1, wrappers[w].panel, 1)
  /\ host_wrappers' = host_wrappers \ {w}
  /\ out' = NoOut
  /\ UNCHANGED <<next_editor_id, id_lock, map_lock, caller, host_views,
                 inflight, disk, phase, issued>>

\* drop of the Box<dyn EditorInstance> the host received
HostDropWrapper(w) ==
  /\ w \in host_wrappers
  /\ UiIdle
  /\ host_wrappers' = host_wrappers \ {w}
  /\ wrappers' = [x \in DOMAIN wrappers \ {w} |-> wrappers[x]]
  /\ struct_editors' = ReleaseEntity(struct_editors, wrappers[w].panel, 1)
  /\ out' = NoOut
  /\ UNCHANGED <<plugin, panel_arcs, caller, host_views, inflight, disk,
                 phase, issued>>

\* lib.rs:178-180
file_path(w) == wrappers[w].file_path

\* lib.rs:194-196
is_dirty(w) == FALSE

\* the host calls is_dirty through its handle
IsDirtyCall(w) ==
  /\ w \in host_wrappers
  /\ UiIdle
  /\ out' = [kind |-> "is_dirty", res |-> "Ok", dirty |-> is_dirty(w)]
  /\ UNCHANGED <<plugin, heap, caller, hostside, disk, phase, issued>>

\* lib.rs:182-183 and 188-189: save / reload enter self.panel.update
BeginOp(w, op) ==
  /\ w \in host_wrappers
  /\ UiIdle
  /\ op \in {"save", "reload"}
  /\ inflight' = [op |-> op, wrapper |-> w]
  /\ out' = NoOut
  /\ UNCHANGED <<plugin, heap, caller, host_views, host_wrappers, disk,
                 phase, issued>>

\* StructEditor::plugin_save: write the document to its path; a failure
\* leaves the instance as it was
plugin_save(e, ok) ==
  IF ok
  THEN /\ disk' = [disk EXCEPT ![struct_editors[e].path] = struct_editors[e].doc]
       /\ struct_editors' =
            [struct_editors EXCEPT ![e].saved = struct_editors[e].doc]
  ELSE UNCHANGED <<disk, struct_editors>>

\* what a reload can read: the document on disk, if there is one
CanReload(e) == disk[struct_editors[e].path] # Absent

\* StructEditor::plugin_reload: read the path back into the document; a
\* failure (or no document on disk) leaves the instance as it was
plugin_reload(e, ok) ==
  IF ok /\ CanReload(e)
  THEN /\ struct_editors' =
            [struct_editors EXCEPT ![e].doc = disk[struct_editors[e].path],
                                   ![e].saved = disk[struct_editors[e].path]]
       /\ UNCHANGED disk
  ELSE UNCHANGED <<disk, struct_editors>>

\* lib.rs:183-185: the save body runs on the entity and returns its result
EndSave(ok) ==
  /\ inflight # NoOp
  /\ inflight.op = "save"
  /\ plugin_save(wrappers[inflight.wrapper].panel, ok)
  /\ out' = [kind |-> "save",
             res |-> IF ok THEN "Ok" ELSE "PersistenceError"]
  /\ inflight' = NoOp
  /\ UNCHANGED <<plugin, panel_arcs, wrappers, caller, host_views,
                 host_wrappers, phase, issued>>

\* lib.rs:189-191
EndReload(ok) ==
  /\ inflight # NoOp
  /\ inflight.op = "reload"
  /\ plugin_reload(wrappers[inflight.wrapper].panel, ok)
  /\ out' = [kind |-> "reload",
             res |-> IF ok /\ CanReload(wrappers[inflight.wrapper].panel)
                     THEN "Ok" ELSE "PersistenceError"]
  /\ inflight' = NoOp
  /\ UNCHANGED <<plugin, panel_arcs, wrappers, caller, host_views,
                 host_wrappers, phase, issued>>

\* an edit made in the panels of a live editor instance
Edit(e, c) ==
  /\ Alive(e)
  /\ UiIdle
  /\ c # struct_editors[e].doc
  /\ struct_editors' = [struct_editors EXCEPT ![e].doc = c]
  /\ out' = NoOut
  /\ UNCHANGED <<plugin, panel_arcs, wrappers, caller, hostside, disk, phase,
                 issued>>

\* --------------------------------------------------------------------- Next
\* create_editor, called from the threads T
Creators(T) ==
  \/ \E t \in T, i \in EditorIds : CreateEditorNotFound(t, i)
  \/ \E t \in T, i \in EditorIds, p \in FilePaths : CreateEditorBuild(t, i, p)
  \/ \E t \in T : LockNextId(t)
  \/ \E t \in T : ReadNextId(t)
  \/ \E t \in T : IncNextId(t)
  \/ \E t \in T : LockEditors(t)
  \/ \E t \in T : InsertAndReturn(t)

Unload ==
  \/ OnUnloadLock
  \/ OnUnloadClear

\* what the host does with the handles it was given
Handles ==
  \/ \E e \in 1..MaxEditors : HostDropView(e)
  \/ \E w \in host_wrappers : HostDropWrapper(w)
  \/ \E w \in host_wrappers : IsDirtyCall(w)

\* the document operations
Documents ==
  \/ \E w \in host_wrappers, op \in {"save", "reload"} : BeginOp(w, op)
  \/ \E ok \in BOOLEAN : EndSave(ok)
  \/ \E ok \in BOOLEAN : EndReload(ok)
  \/ \E e \in 1..MaxEditors, c \in Contents : Edit(e, c)

\* Concurrent create_editor calls, the lifecycle and the host's handles
Next ==
  \/ Creators(Threads)
  \/ on_load
  \/ Unload
  \/ Handles
  \/ \E e \in 1..MaxEditors : HostCloneView(e)

Spec == Init /\ [][Next]_vars

\* The same with the document operations, create_editor called from the UI
\* thread alone (save and reload take the UI thread's &mut App)
DocNext == Creators({UiThread}) \/ Unload \/ Handles \/ Documents

DocSpec == Init /\ [][DocNext]_vars

\* Everything at once: concurrent create_editor calls, the lifecycle, the
\* host's handles and the document operations
FullNext == Next \/ Documents

FullSpec == Init /\ [][FullNext]_vars

\* ------------------------------------------------------------------ claims
\* The entry of the registry that holds the Arc of instance e, if any
Registered(e) == \E id \in DOMAIN editors : editors[id].panel = e

\* A create_editor call that has built instance e and has not returned yet
InCreation(e) == \E t \in Threads : pc[t] # "idle" /\ local[t].panel_arc = e

\* The handle w designates an instance whose entry is no longer in the map
Stale(w) == ~Registered(wrappers[w].panel)

\* C1: the ids concurrent create_editor calls are assigned are pairwise
\* distinct and are exactly 0 .. N-1 for the N calls that have taken one.
C1_IdsDenseAndUnique ==
  /\ \A i, j \in DOMAIN issued : i # j => issued[i] # issued[j]
  /\ Range(issued) = 0 .. (Len(issued) - 1)

\* two calls are in flight at once and each has taken its id
C1_Witness ==
  /\ \A t \in Threads : pc[t] \in {"lock_map", "insert"}
  /\ \A t, u \in Threads : t # u => local[t].id # local[u].id

\* C2 (as claimed): a save, reload or is_dirty the host invokes through a
\* handle whose entry on_unload has removed fails with InstanceNotFound.
C2_StaleHandleFails ==
  [][\A w \in host_wrappers :
       (/\ Stale(w)
        /\ \/ IsDirtyCall(w)
           \/ /\ inflight # NoOp
              /\ inflight.wrapper = w
              /\ \E ok \in BOOLEAN : EndSave(ok) \/ EndReload(ok))
       => out'.res = "InstanceNotFound"]_vars

\* C3 (as claimed): the registry is the sole owner, so every live instance
\* is either in the map or still being built by a create_editor call.
C3_RegistrySoleOwner ==
  \A e \in DOMAIN struct_editors : Alive(e) => Registered(e) \/ InCreation(e)

\* C4: an instance whose entry is in the map is alive, with its Arc and its
\* stored wrapper, whatever handles the host has dropped.
C4_RegisteredStaysAlive ==
  \A id \in DOMAIN editors :
    /\ Alive(editors[id].panel)
    /\ panel_arcs[editors[id].panel] > 0
    /\ editors[id].wrapper \in DOMAIN wrappers

\* the host has dropped its view handle and its capability handle of a
\* registered instance
C4_Witness ==
  \E id \in DOMAIN editors :
    /\ host_views[editors[id].panel] = 0
    /\ \A w \in host_wrappers : wrappers[w].panel # editors[id].panel
    /\ ~InCreation(editors[id].panel)

\* C5 (as claimed): no create_editor call builds an instance unless the
\* host has called on_load and has not called on_unload since.
C5_OnlyWhileLoaded ==
  [][\A t \in Threads, p \in FilePaths :
       ~(phase # "Loaded" /\ CreateEditorBuild(t, SupportedEditor, p))]_vars

\* C6: create_editor with an editor id the plugin does not serve returns
\* EditorNotFound, and a step that returns it leaves the counter, the map
\* and the instances as they were.
C6_UnsupportedChangesNothing ==
  [][/\ \A t \in Threads, i \in EditorIds :
          CreateEditorNotFound(t, i)
          => out'.kind = "create" /\ out'.res = "EditorNotFound"
     /\ (out'.kind = "create" /\ out'.res = "EditorNotFound")
          => UNCHANGED <<editors, next_editor_id, heap>>]_vars

\* a rejected call has just returned on a plugin that holds an entry
C6_Witness ==
  /\ out.kind = "create"
  /\ out.res = "EditorNotFound"
  /\ next_editor_id > 0
  /\ editors # <<>>

\* C7: on_unload leaves the map empty and reports its count; run on an
\* empty map (a second on_unload, or one with zero entries) it reports 0
\* and destroys nothing.
C7_UnloadIdempotent ==
  [][OnUnloadClear =>
       /\ editors' = <<>>
       /\ out'.kind = "unload"
       /\ editors = <<>> => (out'.count = 0 /\ UNCHANGED heap)]_vars

\* an on_unload has just reported 0 although every create_editor call made
\* so far had inserted its entry: an earlier on_unload removed them
C7_Witness ==
  /\ out.kind = "unload"
  /\ out.count = 0
  /\ next_editor_id > 0
  /\ \A t \in Threads : pc[t] = "idle"

\* C8 (as claimed): an instance has one wrapper, and the handle the host
\* holds is the wrapper stored in the instance's entry.
C8_OneWrapperPerInstance ==
  /\ \A e \in DOMAIN struct_editors :
       Cardinality({w \in DOMAIN wrappers : wrappers[w].panel = e}) <= 1
  /\ \A w \in host_wrappers, id \in DOMAIN editors :
       wrappers[w].panel = editors[id].panel => editors[id].wrapper = w

\* C9 (as claimed): is_dirty returns whether the document differs from the
\* last saved or loaded one.
C9_DirtyTracksEdits ==
  [][\A w \in host_wrappers :
       IsDirtyCall(w)
       => out'.dirty = (struct_editors[wrappers[w].panel].doc
                        # struct_editors[wrappers[w].panel].saved)]_vars

\* C10: next_editor_id never decreases, on_unload included, and an id taken
\* differs from every id taken before it.
C10_IdsNeverReused ==
  [][/\ next_editor_id' >= next_editor_id
     /\ \A i \in DOMAIN issued' \ DOMAIN issued :
          \A j \in DOMAIN issued : issued'[i] # issued[j]]_vars

\* an instance was created after an on_unload removed an earlier one: the
\* map holds id 1 and not id 0, and no call is in flight
C10_Witness ==
  /\ 1 \in DOMAIN editors
  /\ 0 \notin DOMAIN editors
  /\ \A t \in Threads : pc[t] = "idle"

\* C11: in every state, under any interleaving of create_editor calls, an
\* id of the map is mapped to a complete entry: the view handle and the
\* wrapper of one and the same fully built editor instance (a document
\* loaded, a path bound).
C11_NoPartialEntry ==
  \A id \in DOMAIN editors :
    /\ editors[id].panel \in DOMAIN struct_editors
    /\ editors[id].wrapper \in DOMAIN wrappers
    /\ wrappers[editors[id].wrapper].panel = editors[id].panel
    /\ wrappers[editors[id].wrapper].file_path \in FilePaths
    /\ struct_editors[editors[id].panel].doc \in Contents
    /\ struct_editors[editors[id].panel].path
         = actual_path(wrappers[editors[id].wrapper].file_path)

\* one call has inserted its entry while another call, its instance built,
\* is about to insert under the map lock
C11_Witness ==
  /\ editors # <<>>
  /\ \E t \in Threads : pc[t] = "insert" /\ map_lock = t

\* C12: a successful create_editor call adds an entry under a key the map
\* did not hold, keeps every earlier entry as it was, and the new entry's
\* instance and wrapper are no earlier entry's, the calls being for the
\* same file path or not; an edit changes the document of the edited
\* instance alone.
C12_SamePathIndependent ==
  [][/\ \A t \in Threads :
          InsertAndReturn(t) =>
            /\ local[t].id \notin DOMAIN editors
            /\ DOMAIN editors' = DOMAIN editors \cup {local[t].id}
            /\ \A i \in DOMAIN editors :
                 /\ editors'[i] = editors[i]
                 /\ editors'[local[t].id].panel # editors[i].panel
                 /\ editors'[local[t].id].wrapper # editors[i].wrapper
     /\ \A e \in 1..MaxEditors, c \in Contents :
          Edit(e, c) =>
            \A x \in DOMAIN struct_editors \ {e} :
              struct_editors'[x] = struct_editors[x]]_vars

\* two entries made for the same file path, and the document of one has been
\* edited while the other still shows the document it loaded
C12_Witness ==
  \E i, j \in DOMAIN editors :
    /\ i # j
    /\ file_path(editors[i].wrapper) = file_path(editors[j].wrapper)
    /\ struct_editors[editors[i].panel].doc = "Edited"
    /\ struct_editors[editors[j].panel].doc = DefaultContent
    /\ struct_editors[editors[j].panel].saved = DefaultContent

\* C13: create_editor succeeds exactly for the editor ids editors()
\* declares: a call takes the building branch only with a declared id and
\* the rejecting branch only with an undeclared one, a rejected call returns
\* EditorNotFound, and a call that has taken the building branch returns
\* nothing but Ok.
C13_SucceedsExactlyForDeclared ==
  [][\A t \in Threads :
       /\ \A i \in EditorIds :
            /\ CreateEditorNotFound(t, i)
                 => /\ i \notin DeclaredEditorIds
                    /\ out'.kind = "create"
                    /\ out'.res = "EditorNotFound"
            /\ (\E p \in FilePaths : CreateEditorBuild(t, i, p))
                 => i \in DeclaredEditorIds
       /\ (pc[t] # "idle" /\ pc'[t] = "idle")
            => out'.kind = "create" /\ out'.res = "Ok"]_vars

\* a call with the declared id has just returned Ok, its entry in the map,
\* while the other caller is still inside its own call
C13_Witness ==
  /\ out.kind = "create"
  /\ out.res = "Ok"
  /\ \E id \in DOMAIN editors : id = next_editor_id - 1
  /\ \E t \in Threads : pc[t] # "idle"

\* C14: the count on_unload reports is the number of entries the map holds
\* when it runs, and that number is the number of create_editor calls that
\* have returned Ok since the previous on_unload (or since construction):
\* on_unload leaves it at zero, a call that returns Ok raises it by one, and
\* no other step changes it.
C14_CountIsCreatedSinceUnload ==
  [][/\ OnUnloadClear
          => /\ out'.kind = "unload"
             /\ out'.count = Cardinality(DOMAIN editors)
             /\ Cardinality(DOMAIN editors') = 0
     /\ (out'.kind = "create" /\ out'.res = "Ok")
          => Cardinality(DOMAIN editors') = Cardinality(DOMAIN editors) + 1
     /\ (out'.kind # "unload" /\ ~(out'.kind = "create" /\ out'.res = "Ok"))
          => Cardinality(DOMAIN editors') = Cardinality(DOMAIN editors)]_vars

\* an on_unload has just reported one instance although two calls have
\* returned Ok since construction: the other one was counted by the
\* previous on_unload
C14_Witness ==
  /\ out.kind = "unload"
  /\ out.count = 1
  /\ next_editor_id = 2
  /\ \A t \in Threads : pc[t] = "idle"

\* C15: file_path() of a wrapper is the path create_editor was called with,
\* also when that path is a folder and the document is loaded from its
\* marker file: the wrapper a call builds answers the call's path, the clone
\* stored in the map answers what the wrapper it was cloned from answers,
\* and no step (save and reload included) changes the answer of a wrapper.
C15_FilePathIsOriginal ==
  [][/\ \A t \in Threads, p \in FilePaths :
          CreateEditorBuild(t, SupportedEditor, p)
          => /\ local'[t].wrapper \notin DOMAIN wrappers
             /\ wrappers'[local'[t].wrapper].file_path = p
     /\ \A t \in Threads :
          InsertAndReturn(t)
          => \A w \in DOMAIN wrappers' \ DOMAIN wrappers :
               file_path(w)' = file_path(local[t].wrapper)
     /\ \A w \in DOMAIN wrappers \cap DOMAIN wrappers' :
          file_path(w)' = file_path(w)]_vars

\* a save through a wrapper made for a folder has just written the marker
\* file inside it, and the wrapper still answers the folder
C15_Witness ==
  \E w \in host_wrappers :
    /\ out.kind = "save"
    /\ out.res = "Ok"
    /\ is_dir(file_path(w))
    /\ struct_editors[wrappers[w].panel].path = join(file_path(w), MarkerFile)
    /\ disk[join(file_path(w), MarkerFile)] = "Edited"

\* C16: no interleaving of concurrent create_editor calls, of save, reload
\* and is_dirty calls through the host's handles and of on_unload reaches a
\* deadlock. No caller holds the counter lock and the map lock together; a
\* caller that waits for a lock finds it free or held by someone whose next
\* step is enabled; on_unload can take the map lock or its holder can step;
\* and a save or reload in flight, and an is_dirty call, can complete
\* whoever holds the map lock.
C16_NoDeadlock ==
  /\ \A t \in Threads : ~(id_lock = t /\ map_lock = t)
  /\ \A t \in Threads :
       pc[t] = "lock_id"
       => \/ ENABLED LockNextId(t)
          \/ \E u \in Threads \ {t} :
               id_lock = u /\ ENABLED (ReadNextId(u) \/ IncNextId(u))
  /\ \A t \in Threads :
       pc[t] = "lock_map"
       => \/ ENABLED LockEditors(t)
          \/ map_lock = Host /\ ENABLED OnUnloadClear
          \/ \E u \in Threads \ {t} :
               map_lock = u /\ ENABLED InsertAndReturn(u)
  /\ \/ ENABLED OnUnloadLock
     \/ ENABLED OnUnloadClear
     \/ \E u \in Threads : map_lock = u /\ ENABLED InsertAndReturn(u)
  /\ inflight # NoOp
       => ENABLED (\E ok \in BOOLEAN : EndSave(ok) \/ EndReload(ok))
  /\ \A w \in host_wrappers : UiIdle => ENABLED IsDirtyCall(w)

\* a save or reload is in flight while on_unload holds the map lock and a
\* create_editor call on another thread waits for that lock
C16_Witness ==
  /\ inflight # NoOp
  /\ map_lock = Host
  /\ \E t \in Threads : pc[t] = "lock_map"

\* C17: the instance a save or reload is running on is alive, its wrapper
\* and its document in place, until the operation has completed, also when
\* on_unload has removed the instance's entry meanwhile.
C17_InFlightSurvivesUnload ==
  inflight # NoOp
  => /\ inflight.wrapper \in DOMAIN wrappers
     /\ Alive(wrappers[inflight.wrapper].panel)
     /\ struct_editors[wrappers[inflight.wrapper].panel].doc \in Contents

\* on_unload has just removed the entry of every instance built so far while
\* a save or reload is running on one of them, whose view handle the host
\* had dropped before
C17_Witness ==
  /\ inflight # NoOp
  /\ out.kind = "unload"
  /\ out.count > 0
  /\ out.count = Len(struct_editors)
  /\ host_views[wrappers[inflight.wrapper].panel] = 0

\* C18: create_editor holds neither lock while the document is resolved and
\* loaded. A caller holds the counter lock only at the read and the
\* increment of the counter, and the map lock only at the insert; whenever
\* it holds either, its instance, view handle and wrapper are already built
\* and the document is loaded; a caller outside these positions (before,
\* during and just after the build) holds no lock.
C18_NoLockWhileLoading ==
  \A t \in Threads :
    /\ id_lock = t => pc[t] \in {"read_id", "inc_id"}
    /\ map_lock = t => pc[t] = "insert" /\ local[t].id >= 0
    /\ (id_lock = t \/ map_lock = t)
         => /\ Alive(local[t].panel_arc)
            /\ struct_editors[local[t].panel_arc].doc \in Contents
            /\ panel_arcs[local[t].panel_arc] > 0
            /\ local[t].wrapper \in DOMAIN wrappers
    /\ pc[t] \in {"idle", "lock_id", "lock_map"}
         => id_lock # t /\ map_lock # t

\* a caller has built its instance and holds no lock, while another caller
\* holds the counter lock and on_unload holds the map lock
C18_Witness ==
  \E t, u \in Threads :
    /\ t # u
    /\ pc[t] = "lock_id"
    /\ Alive(local[t].panel_arc)
    /\ id_lock = u
    /\ map_lock = Host

\* C19: on_unload is the only operation that removes entries. A step that
\* is not the clear of on_unload (a create_editor step, successful or
\* rejected, a save, a reload, an is_dirty, an on_load, a clone or a drop of
\* a host handle, an edit) keeps every key of the map, mapped to the entry
\* it was mapped to; so the key set only grows between two on_unload calls.
C19_OnlyUnloadRemoves ==
  [][~OnUnloadClear
       => /\ DOMAIN editors \subseteq DOMAIN editors'
          /\ \A id \in DOMAIN editors : editors'[id] = editors[id]]_vars

\* a reload has just succeeded on a plugin whose map holds the entries of
\* both create_editor calls made before it
C19_Witness ==
  /\ out.kind = "reload"
  /\ out.res = "Ok"
  /\ Cardinality(DOMAIN editors) = 2
  /\ next_editor_id = 2

\* C20: in every reachable state, under any interleaving of create_editor
\* and on_unload, every key of the map is strictly less than next_editor_id
\* and the map has at most next_editor_id entries.
C20_KeysBelowCounter ==
  /\ \A id \in DOMAIN editors : id < next_editor_id
  /\ Cardinality(DOMAIN editors) <= next_editor_id

\* the call that took id 1 has inserted its entry while the call that took
\* id 0 has not inserted yet
C20_Witness ==
  /\ DOMAIN editors = {1}
  /\ \E t \in Threads : pc[t] \in {"lock_map", "insert"} /\ local[t].id = 0

====
